---- MODULE Spec2Model ----
(***************************************************************************)
(* A model of ulid-rs: the Crockford base32 codec (src/src/base32.rs), the *)
(* Ulid value type (src/src/lib.rs, src/src/time.rs) and the monotonic     *)
(* Generator (src/src/generator.rs).                                       *)
(*                                                                         *)
(* Wide integers.  u128 and u64 values are kept at their full width as     *)
(* big-endian sequences of 16-bit limbs (8 limbs for a u128, 4 for a u64), *)
(* so that shifts, masks, carries and truncating casts behave as they do   *)
(* in the code.  Limb 1 is the most significant.                           *)
(***************************************************************************)
EXTENDS Integers, Sequences, FiniteSets, TLC

LimbBase == 2^16
LimbMax == LimbBase - 1
U128Limbs == 128 \div 16
U64Limbs == 64 \div 16

\* Bounds of the model.
MaxCalls == 3
MaxCount == 3

----------------------------------------------------------------------------
\* Fixed-width unsigned arithmetic on limb sequences.

\* A function on 1..n as the tuple of its values.
Tup(f) == f \o << >>

Zero(n) == Tup([i \in 1..n |-> 0])
AllOnes(n) == Tup([i \in 1..n |-> LimbMax])

\* A small number (below 2^16) as an n-limb integer.
Small(n, x) == Tup([i \in 1..n |-> IF i = n THEN x ELSE 0])

\* Limb i of v, 0 outside the width (bits shifted in are zero).
LimbAt(v, i) == IF i >= 1 /\ i <= Len(v) THEN v[i] ELSE 0

\* v >> n at the width of v.
Shr(v, n) ==
    LET q == n \div 16
        r == n % 16
    IN Tup([i \in 1..Len(v) |->
            (LimbAt(v, i - q) \div 2^r) + ((LimbAt(v, i - q - 1) % 2^r) * 2^(16 - r))])

\* v << n at the width of v; bits shifted past the top are discarded.
Shl(v, n) ==
    LET q == n \div 16
        r == n % 16
    IN Tup([i \in 1..Len(v) |->
            ((LimbAt(v, i + q) * 2^r) % LimbBase) + (LimbAt(v, i + q + 1) \div 2^(16 - r))])

RECURSIVE BitAnd(_, _)
BitAnd(a, b) ==
    IF a = 0 \/ b = 0 THEN 0
    ELSE (a % 2) * (b % 2) + 2 * BitAnd(a \div 2, b \div 2)

RECURSIVE BitOr(_, _)
BitOr(a, b) ==
    IF a = 0 THEN b
    ELSE IF b = 0 THEN a
    ELSE (IF a % 2 = 1 \/ b % 2 = 1 THEN 1 ELSE 0) + 2 * BitOr(a \div 2, b \div 2)

And(v, w) == Tup([i \in 1..Len(v) |-> BitAnd(v[i], w[i])])
Or(v, w) == Tup([i \in 1..Len(v) |-> BitOr(v[i], w[i])])

\* `as` cast to a narrower type: the low n limbs.
Truncate(v, n) == Tup([i \in 1..n |-> v[Len(v) - n + i]])
\* From a narrower type: zero extension to n limbs.
Extend(v, n) == Tup([i \in 1..n |-> LimbAt(v, i - (n - Len(v)))])

\* Unsigned comparison.
RECURSIVE LessFrom(_, _, _)
LessFrom(v, w, i) ==
    IF i > Len(v) THEN FALSE
    ELSE IF v[i] # w[i] THEN v[i] < w[i]
    ELSE LessFrom(v, w, i + 1)

Less(v, w) == LessFrom(v, w, 1)
LessEq(v, w) == v = w \/ Less(v, w)

\* v + 1 at the width of v (wrapping).
RECURSIVE AddOneAt(_, _)
AddOneAt(v, i) ==
    IF i = 0 THEN v
    ELSE IF v[i] = LimbMax THEN AddOneAt([v EXCEPT ![i] = 0], i - 1)
    ELSE [v EXCEPT ![i] = v[i] + 1]

AddOne(v) == AddOneAt(v, Len(v))

\* v * m for a small m, wrapping at the width of v: the loop state st holds
\* the limbs done so far, the limb to do next and the carry.
RECURSIVE MulSmallLoop(_, _)
MulSmallLoop(m, st) ==
    IF st.i = 0 THEN st.value
    ELSE LET x == st.value[st.i] * m + st.carry
         IN MulSmallLoop(m, [value |-> [st.value EXCEPT ![st.i] = x % LimbBase],
                             i |-> st.i - 1,
                             carry |-> x \div LimbBase])

MulSmall(v, m) == MulSmallLoop(m, [value |-> v, i |-> Len(v), carry |-> 0])

\* v / d and v % d for a small d.
RECURSIVE DivSmallLoop(_, _)
DivSmallLoop(d, st) ==
    IF st.i > Len(st.value) THEN st
    ELSE LET x == st.rem * LimbBase + st.value[st.i]
         IN DivSmallLoop(d, [value |-> [st.value EXCEPT ![st.i] = x \div d],
                             i |-> st.i + 1,
                             rem |-> x % d])

DivSmall(v, d) == DivSmallLoop(d, [value |-> v, i |-> 1, rem |-> 0]).value
ModSmall(v, d) == DivSmallLoop(d, [value |-> v, i |-> 1, rem |-> 0]).rem

\* a + b, wrapping at their width.
RECURSIVE AddLoop(_, _)
AddLoop(b, st) ==
    IF st.i = 0 THEN st.value
    ELSE LET x == st.value[st.i] + b[st.i] + st.carry
         IN AddLoop(b, [value |-> [st.value EXCEPT ![st.i] = x % LimbBase],
                        i |-> st.i - 1,
                        carry |-> x \div LimbBase])

Add(a, b) == AddLoop(b, [value |-> a, i |-> Len(a), carry |-> 0])

\* ((1 << len) - 1) as a u128.
bitmask(len) ==
    Tup([i \in 1..U128Limbs |->
        LET below == 16 * (U128Limbs - i)
        IN IF len >= below + 16 THEN LimbMax
           ELSE IF len <= below THEN 0
           ELSE 2^(len - below) - 1])

----------------------------------------------------------------------------
\* Ulid (a newtype over u128).

TIME_BITS == 48
RAND_BITS == 80

nil == Zero(U128Limbs)

\* timestamp_ms shifting by the width of the time field.
timestamp_ms_shift_time_bits(self) == Truncate(Shr(self, TIME_BITS), U64Limbs)

\* (self.0 >> RAND_BITS) as u64
timestamp_ms(self) == Truncate(Shr(self, RAND_BITS), U64Limbs)

\* The mask of the width of the time field.
MAX_RANDOM_time_bits == bitmask(TIME_BITS)

MAX_RANDOM == bitmask(RAND_BITS)

\* increment without the saturation check.
increment_unchecked(self) == << AddOne(self) >>

\* Option<Ulid>: None is << >>, Some(u) is <<u>>.
increment(self) ==
    IF And(self, MAX_RANDOM) = MAX_RANDOM
    THEN << >>
    ELSE << AddOne(self) >>

\* Ulid::increment_overflowing: the value one higher, the carry of a
\* saturated random field going into the time field.  It has no successor
\* for the highest value, where the call panics: << >>.
increment_overflowing(self) ==
    IF self = AllOnes(U128Limbs)
    THEN << >>
    ELSE << AddOne(self) >>

\* From<(u64, u64)>: u128::from(msb) << 64 | u128::from(lsb)
from_msb_lsb(msb, lsb) ==
    Or(Shl(Extend(msb, U128Limbs), 64), Extend(lsb, U128Limbs))

----------------------------------------------------------------------------
\* SystemTime: an instant as its signed distance from UNIX_EPOCH, held as
\* the whole milliseconds (a u128) and the nanoseconds below the millisecond.

\* datetime.duration_since(UNIX_EPOCH).unwrap_or(Duration::ZERO).as_millis()
\* The millisecond count taking the distance to the epoch of a datetime
\* before it, where the code takes zero.
millis_since_epoch_distance(datetime) == datetime.ms

\* The millisecond count rounded to the nearest millisecond.
millis_since_epoch_rounded(datetime) ==
    IF datetime.before_epoch THEN Zero(U128Limbs)
    ELSE IF datetime.ns >= 500000 THEN AddOne(datetime.ms)
    ELSE datetime.ms

millis_since_epoch(datetime) ==
    IF datetime.before_epoch THEN Zero(U128Limbs) ELSE datetime.ms

\* from_datetime_with_source with the two halves handed over in the wrong order.
from_datetime_with_source_lsb_first(datetime, r16, r64) ==
    LET timestamp == millis_since_epoch(datetime)
        timebits == Truncate(And(timestamp, bitmask(TIME_BITS)), U64Limbs)
        msb == Or(Shl(timebits, 16), Small(U64Limbs, r16))
        lsb == r64
    IN from_msb_lsb(lsb, msb)

\* from_datetime_with_source holding a timestamp of more than 48 bits at the
\* highest 48-bit value.
from_datetime_with_source_saturating(datetime, r16, r64) ==
    LET timestamp == millis_since_epoch(datetime)
        timebits == IF LessEq(timestamp, bitmask(TIME_BITS))
                    THEN Truncate(timestamp, U64Limbs)
                    ELSE Truncate(bitmask(TIME_BITS), U64Limbs)
        msb == Or(Shl(timebits, 16), Small(U64Limbs, r16))
        lsb == r64
    IN from_msb_lsb(msb, lsb)

\* from_datetime_with_source filling the 16 high random bits from the 64-bit
\* draw.
from_datetime_with_source_one_draw(datetime, r16, r64) ==
    LET timestamp == millis_since_epoch(datetime)
        timebits == Truncate(And(timestamp, bitmask(TIME_BITS)), U64Limbs)
        msb == Or(Shl(timebits, 16), Small(U64Limbs, r64[U64Limbs]))
        lsb == r64
    IN from_msb_lsb(msb, lsb)

\* Ulid::from_datetime_with_source; r16 and r64 are the values the source
\* yields for gen::<u16>() and gen::<u64>(), in that order.
from_datetime_with_source(datetime, r16, r64) ==
    LET timestamp == millis_since_epoch(datetime)
        timebits == Truncate(And(timestamp, bitmask(TIME_BITS)), U64Limbs)
        msb == Or(Shl(timebits, 16), Small(U64Limbs, r16))
        lsb == r64
    IN from_msb_lsb(msb, lsb)

\* Result<T, E>
Ok(u) == [ok |-> TRUE, val |-> u]
Err(e) == [ok |-> FALSE, err |-> e]

----------------------------------------------------------------------------
\* base32: the Crockford codec.  A str or String is its UTF-8 bytes.

ULID_LEN == 26

\* The RFC 4648 alphabet in place of Crockford's.
ALPHABET_rfc4648 ==
    << 65, 66, 67, 68, 69, 70, 71, 72, 73, 74, 75, 76, 77, 78, 79, 80,
       81, 82, 83, 84, 85, 86, 87, 88, 89, 90, 50, 51, 52, 53, 54, 55 >>

\* The alphabet with lowercase letters.
ALPHABET_lowercase ==
    << 48, 49, 50, 51, 52, 53, 54, 55, 56, 57, 97, 98, 99, 100, 101, 102,
       103, 104, 106, 107, 109, 110, 112, 113, 114, 115, 116, 118, 119, 120, 121, 122 >>

\* b"0123456789ABCDEFGHJKMNPQRSTVWXYZ"
ALPHABET ==
    << 48, 49, 50, 51, 52, 53, 54, 55, 56, 57, 65, 66, 67, 68, 69, 70,
       71, 72, 74, 75, 77, 78, 80, 81, 82, 83, 84, 86, 87, 88, 89, 90 >>

NO_VALUE == 255

\* A table that also accepts Crockford's aliases I, L (for 1) and O (for 0).
LOOKUP_with_aliases ==
    << 255, 255, 255, 255, 255, 255, 255, 255, 255, 255, 255, 255, 255, 255, 255, 255,
       255, 255, 255, 255, 255, 255, 255, 255, 255, 255, 255, 255, 255, 255, 255, 255,
       255, 255, 255, 255, 255, 255, 255, 255, 255, 255, 255, 255, 255, 255, 255, 255,
       0, 1, 2, 3, 4, 5, 6, 7, 8, 9, 255, 255, 255, 255, 255, 255,
       255, 10, 11, 12, 13, 14, 15, 16, 17, 1, 18, 19, 1, 20, 21, 0,
       22, 23, 24, 25, 26, 255, 27, 28, 29, 30, 31, 255, 255, 255, 255, 255,
       255, 10, 11, 12, 13, 14, 15, 16, 17, 1, 18, 19, 1, 20, 21, 0,
       22, 23, 24, 25, 26, 255, 27, 28, 29, 30, 31, 255, 255, 255, 255, 255,
       255, 255, 255, 255, 255, 255, 255, 255, 255, 255, 255, 255, 255, 255, 255, 255,
       255, 255, 255, 255, 255, 255, 255, 255, 255, 255, 255, 255, 255, 255, 255, 255,
       255, 255, 255, 255, 255, 255, 255, 255, 255, 255, 255, 255, 255, 255, 255, 255,
       255, 255, 255, 255, 255, 255, 255, 255, 255, 255, 255, 255, 255, 255, 255, 255,
       255, 255, 255, 255, 255, 255, 255, 255, 255, 255, 255, 255, 255, 255, 255, 255,
       255, 255, 255, 255, 255, 255, 255, 255, 255, 255, 255, 255, 255, 255, 255, 255,
       255, 255, 255, 255, 255, 255, 255, 255, 255, 255, 255, 255, 255, 255, 255, 255,
       255, 255, 255, 255, 255, 255, 255, 255, 255, 255, 255, 255, 255, 255, 255, 255 >>

\* A table without the entries for lowercase letters.
LOOKUP_uppercase_only ==
    << 255, 255, 255, 255, 255, 255, 255, 255, 255, 255, 255, 255, 255, 255, 255, 255,
       255, 255, 255, 255, 255, 255, 255, 255, 255, 255, 255, 255, 255, 255, 255, 255,
       255, 255, 255, 255, 255, 255, 255, 255, 255, 255, 255, 255, 255, 255, 255, 255,
       0, 1, 2, 3, 4, 5, 6, 7, 8, 9, 255, 255, 255, 255, 255, 255,
       255, 10, 11, 12, 13, 14, 15, 16, 17, 255, 18, 19, 255, 20, 21, 255,
       22, 23, 24, 25, 26, 255, 27, 28, 29, 30, 31, 255, 255, 255, 255, 255,
       255, 255, 255, 255, 255, 255, 255, 255, 255, 255, 255, 255, 255, 255, 255, 255,
       255, 255, 255, 255, 255, 255, 255, 255, 255, 255, 255, 255, 255, 255, 255, 255,
       255, 255, 255, 255, 255, 255, 255, 255, 255, 255, 255, 255, 255, 255, 255, 255,
       255, 255, 255, 255, 255, 255, 255, 255, 255, 255, 255, 255, 255, 255, 255, 255,
       255, 255, 255, 255, 255, 255, 255, 255, 255, 255, 255, 255, 255, 255, 255, 255,
       255, 255, 255, 255, 255, 255, 255, 255, 255, 255, 255, 255, 255, 255, 255, 255,
       255, 255, 255, 255, 255, 255, 255, 255, 255, 255, 255, 255, 255, 255, 255, 255,
       255, 255, 255, 255, 255, 255, 255, 255, 255, 255, 255, 255, 255, 255, 255, 255,
       255, 255, 255, 255, 255, 255, 255, 255, 255, 255, 255, 255, 255, 255, 255, 255,
       255, 255, 255, 255, 255, 255, 255, 255, 255, 255, 255, 255, 255, 255, 255, 255 >>

LOOKUP ==
    << 255, 255, 255, 255, 255, 255, 255, 255, 255, 255, 255, 255, 255, 255, 255, 255,
       255, 255, 255, 255, 255, 255, 255, 255, 255, 255, 255, 255, 255, 255, 255, 255,
       255, 255, 255, 255, 255, 255, 255, 255, 255, 255, 255, 255, 255, 255, 255, 255,
       0, 1, 2, 3, 4, 5, 6, 7, 8, 9, 255, 255, 255, 255, 255, 255,
       255, 10, 11, 12, 13, 14, 15, 16, 17, 255, 18, 19, 255, 20, 21, 255,
       22, 23, 24, 25, 26, 255, 27, 28, 29, 30, 31, 255, 255, 255, 255, 255,
       255, 10, 11, 12, 13, 14, 15, 16, 17, 255, 18, 19, 255, 20, 21, 255,
       22, 23, 24, 25, 26, 255, 27, 28, 29, 30, 31, 255, 255, 255, 255, 255,
       255, 255, 255, 255, 255, 255, 255, 255, 255, 255, 255, 255, 255, 255, 255, 255,
       255, 255, 255, 255, 255, 255, 255, 255, 255, 255, 255, 255, 255, 255, 255, 255,
       255, 255, 255, 255, 255, 255, 255, 255, 255, 255, 255, 255, 255, 255, 255, 255,
       255, 255, 255, 255, 255, 255, 255, 255, 255, 255, 255, 255, 255, 255, 255, 255,
       255, 255, 255, 255, 255, 255, 255, 255, 255, 255, 255, 255, 255, 255, 255, 255,
       255, 255, 255, 255, 255, 255, 255, 255, 255, 255, 255, 255, 255, 255, 255, 255,
       255, 255, 255, 255, 255, 255, 255, 255, 255, 255, 255, 255, 255, 255, 255, 255,
       255, 255, 255, 255, 255, 255, 255, 255, 255, 255, 255, 255, 255, 255, 255, 255 >>

\* `as usize` of a u128 known to be below 2^16.
AsIndex(v) == v[Len(v)]

\* encode_loop filling the buffer from the front (least significant first).
RECURSIVE encode_loop_forward(_)
encode_loop_forward(st) ==
    IF st.i >= ULID_LEN THEN st.buffer
    ELSE encode_loop_forward(
            [value |-> Shr(st.value, 5),
             buffer |-> [st.buffer EXCEPT ![st.i + 1] =
                            ALPHABET[AsIndex(And(st.value, Small(U128Limbs, 31))) + 1]],
             i |-> st.i + 1])

\* The loop of encode_to, from the loop state st = (value, buffer, i) on.
RECURSIVE encode_loop(_)
encode_loop(st) ==
    IF st.i >= ULID_LEN THEN st.buffer
    ELSE encode_loop(
            [value |-> Shr(st.value, 5),
             buffer |-> [st.buffer EXCEPT ![(ULID_LEN - 1 - st.i) + 1] =
                            ALPHABET[AsIndex(And(st.value, Small(U128Limbs, 31))) + 1]],
             i |-> st.i + 1])

\* encode_to refusing a buffer of exactly ULID_LEN bytes.
encode_to_le(value, buffer) ==
    IF Len(buffer) <= ULID_LEN
    THEN [result |-> Err("BufferTooSmall"), buffer |-> buffer]
    ELSE [result |-> Ok(ULID_LEN),
          buffer |-> encode_loop([value |-> value, buffer |-> buffer, i |-> 0])]

\* encode_to: the result and the buffer as the call leaves it.
encode_to(value, buffer) ==
    IF Len(buffer) < ULID_LEN
    THEN [result |-> Err("BufferTooSmall"), buffer |-> buffer]
    ELSE [result |-> Ok(ULID_LEN),
          buffer |-> encode_loop([value |-> value, buffer |-> buffer, i |-> 0])]

\* encode: the String made of the 26 bytes written by encode_to.
encode(value) ==
    LET buffer == Tup([i \in 1..ULID_LEN |-> 0])
    IN encode_to(value, buffer).buffer

\* decode_loop shifting by 4 bits per symbol.
RECURSIVE decode_loop_shift4(_, _)
decode_loop_shift4(bytes, st) ==
    IF st.i >= ULID_LEN THEN Ok(st.value)
    ELSE LET val == LOOKUP[bytes[st.i + 1] + 1]
         IN IF val # NO_VALUE
            THEN decode_loop_shift4(bytes,
                    [value |-> Or(Shl(st.value, 4), Small(U128Limbs, val)),
                     i |-> st.i + 1])
            ELSE Err("InvalidChar")

\* The loop of decode, from the loop state st = (value, i) on.
RECURSIVE decode_loop(_, _)
decode_loop(bytes, st) ==
    IF st.i >= ULID_LEN THEN Ok(st.value)
    ELSE LET val == LOOKUP[bytes[st.i + 1] + 1]
         IN IF val # NO_VALUE
            THEN decode_loop(bytes,
                    [value |-> Or(Shl(st.value, 5), Small(U128Limbs, val)),
                     i |-> st.i + 1])
            ELSE Err("InvalidChar")

\* decode with the length check written as "too short".
decode_too_short_only(encoded) ==
    IF Len(encoded) < ULID_LEN
    THEN Err("InvalidLength")
    ELSE decode_loop(encoded, [value |-> Zero(U128Limbs), i |-> 0])

decode(encoded) ==
    IF Len(encoded) # ULID_LEN
    THEN Err("InvalidLength")
    ELSE decode_loop(encoded, [value |-> Zero(U128Limbs), i |-> 0])

----------------------------------------------------------------------------
\* Generator.

VARIABLES
    previous,   \* Generator.previous
    log,        \* one record per call made on the generator, oldest first
    made,       \* the last two calls of Ulid::from_datetime_with_source
    enc_in,     \* the u128 values handed to encode
    enc_out,    \* the Strings encode returned for them, in order
    dec_in,     \* the strs handed to decode
    dec_out,    \* the Results decode returned for them, in order
    op_in,      \* a single call of a function: its name and its arguments
    op_out,     \* what that call returned, once it has
    clock,      \* the system clock: the position of its reading in ClockReadings
    cli,        \* the command-line program's generate(count, true): its locals
    held        \* for each caller sharing the generator, the clock reading it
                \* took and has not yet passed to a call (0: none)

vars == << previous, log, made, enc_in, enc_out, dec_in, dec_out, op_in, op_out,
          clock, cli, held >>
genVars == << previous, log >>
codecVars == << enc_in, enc_out, dec_in, dec_out >>
unitVars == << op_in, op_out >>
envVars == << clock, cli, held >>

\* The callers that share one generator.
Callers == { "a", "b" }

NoneHeld == [c \in Callers |-> 0]
NotRunning == [pc |-> "none"]

\* generate_from_datetime_with_source comparing with < where the code has <=.
generate_from_datetime_with_source_lt(prev, datetime, r16, r64) ==
    LET last_ms == timestamp_ms(prev)
    IN IF Less(millis_since_epoch(datetime), Extend(last_ms, U128Limbs))
       THEN LET next == increment(prev)
            IN IF next # << >>
               THEN [previous |-> next[1], result |-> Ok(next[1]), drawn |-> << >>]
               ELSE [previous |-> prev, result |-> Err("Overflow"), drawn |-> << >>]
       ELSE LET next == from_datetime_with_source(datetime, r16, r64)
            IN [previous |-> next, result |-> Ok(next), drawn |-> << r16, r64 >>]

\* The body of Generator::generate_from_datetime_with_source on a generator
\* whose field is `prev`: the new value of the field, the value returned,
\* and the values taken from the source.
\* generate_from_datetime_with_source taking a clock one millisecond ahead
\* of previous as not advanced.
generate_from_datetime_with_source_le_next(prev, datetime, r16, r64) ==
    LET last_ms == timestamp_ms(prev)
    IN IF LessEq(millis_since_epoch(datetime), AddOne(Extend(last_ms, U128Limbs)))
       THEN LET next == increment(prev)
            IN IF next # << >>
               THEN [previous |-> next[1], result |-> Ok(next[1]), drawn |-> << >>]
               ELSE [previous |-> prev, result |-> Err("Overflow"), drawn |-> << >>]
       ELSE LET next == from_datetime_with_source(datetime, r16, r64)
            IN [previous |-> next, result |-> Ok(next), drawn |-> << r16, r64 >>]

\* generate_from_datetime_with_source building the fresh Ulid, and so
\* drawing, before it compares the clock.
generate_from_datetime_with_source_draws_first(prev, datetime, r16, r64) ==
    LET last_ms == timestamp_ms(prev)
        fresh == from_datetime_with_source(datetime, r16, r64)
    IN IF LessEq(millis_since_epoch(datetime), Extend(last_ms, U128Limbs))
       THEN LET next == increment(prev)
            IN IF next # << >>
               THEN [previous |-> next[1], result |-> Ok(next[1]), drawn |-> << r16, r64 >>]
               ELSE [previous |-> prev, result |-> Err("Overflow"), drawn |-> << r16, r64 >>]
       ELSE [previous |-> fresh, result |-> Ok(fresh), drawn |-> << r16, r64 >>]

generate_from_datetime_with_source(prev, datetime, r16, r64) ==
    LET last_ms == timestamp_ms(prev)
    IN IF LessEq(millis_since_epoch(datetime), Extend(last_ms, U128Limbs))
       THEN LET next == increment(prev)
            IN IF next # << >>
               THEN [previous |-> next[1], result |-> Ok(next[1]), drawn |-> << >>]
               ELSE [previous |-> prev, result |-> Err("Overflow"), drawn |-> << >>]
       ELSE LET next == from_datetime_with_source(datetime, r16, r64)
            IN [previous |-> next, result |-> Ok(next), drawn |-> << r16, r64 >>]

\* Inputs: clock readings and the values a source may yield.
Instant(before, ms, ns) == [before_epoch |-> before, ms |-> ms, ns |-> ns]

\* hi * 2^48 + lo milliseconds, as a u128.
Millis(hi, lo) == Tup([i \in 1..U128Limbs |-> IF i = 5 THEN hi ELSE IF i = 8 THEN lo ELSE 0])

Datetimes ==
    { Instant(TRUE, Millis(0, 1), 0),
      Instant(FALSE, Millis(0, 0), 0),
      Instant(FALSE, Millis(0, 1), 0),
      Instant(FALSE, Millis(0, 2), 500000),
      Instant(FALSE, bitmask(TIME_BITS), 0),
      Instant(FALSE, Millis(1, 1), 0) }

U16Draws == { 0, LimbMax }
U64Draws == { AllOnes(U64Limbs), [AllOnes(U64Limbs) EXCEPT ![U64Limbs] = LimbMax - 1] }

\* Generator::new
Init ==
    /\ previous = nil
    /\ log = << >>
    /\ made = << >>
    /\ enc_in = << >> /\ enc_out = << >>
    /\ dec_in = << >> /\ dec_out = << >>
    /\ op_in = [op |-> "none"] /\ op_out = << >>
    /\ clock = 1 /\ cli = NotRunning /\ held = NoneHeld

Generate(datetime, r16, r64) ==
    LET out == generate_from_datetime_with_source(previous, datetime, r16, r64)
    IN /\ Len(log) < MaxCalls
       /\ previous' = out.previous
       /\ log' = Append(log, [datetime |-> datetime, before |-> previous,
                              result |-> out.result, drawn |-> out.drawn,
                              after |-> out.previous])
       /\ UNCHANGED << made, codecVars, unitVars, envVars >>

Next ==
    \E datetime \in Datetimes, r16 \in U16Draws, r64 \in U64Draws :
        Generate(datetime, r16, r64)

\* The generator is created by Generator::new and then called.
Spec == Init /\ [][Next]_vars

----------------------------------------------------------------------------
\* Generator::generate_overflowing called on a new generator.

\* generate_overflowing taking a fresh Ulid that equals previous.
generate_overflowing_ge(prev, now, r16, r64) ==
    LET next == from_datetime_with_source(now, r16, r64)
    IN IF LessEq(prev, next)
       THEN [previous |-> next, result |-> Ok(next)]
       ELSE LET incremented == increment_overflowing(prev)
            IN IF incremented # << >>
               THEN [previous |-> incremented[1], result |-> Ok(incremented[1])]
               ELSE [previous |-> prev, result |-> Err("panic")]

\* generate_overflowing moving on to the next millisecond whenever the fresh
\* Ulid is not greater than previous.
generate_overflowing_next_ms(prev, now, r16, r64) ==
    LET next == from_datetime_with_source(now, r16, r64)
    IN IF Less(prev, next)
       THEN [previous |-> next, result |-> Ok(next)]
       ELSE LET incremented == AddOneAt(prev, TIME_BITS \div 16)
            IN [previous |-> incremented, result |-> Ok(incremented)]

\* generate_overflowing: now is what SystemTime::now() reads inside
\* Ulid::new and r16, r64 are what the thread's generator yields there.  The
\* method returns a Ulid: the result is Ok of it, or Err("panic") when the
\* call panics, which leaves the generator as it was.
generate_overflowing(prev, now, r16, r64) ==
    LET next == from_datetime_with_source(now, r16, r64)
    IN IF Less(prev, next)
       THEN [previous |-> next, result |-> Ok(next)]
       ELSE LET incremented == increment_overflowing(prev)
            IN IF incremented # << >>
               THEN [previous |-> incremented[1], result |-> Ok(incremented[1])]
               ELSE [previous |-> prev, result |-> Err("panic")]

GenerateOverflowing(now, r16, r64) ==
    LET out == generate_overflowing(previous, now, r16, r64)
    IN /\ Len(log) < MaxCalls
       /\ previous' = out.previous
       /\ log' = Append(log, [datetime |-> now, before |-> previous,
                              result |-> out.result, after |-> out.previous])
       /\ UNCHANGED << made, codecVars, unitVars, envVars >>

NextOverflowing ==
    \E now \in Datetimes, r16 \in U16Draws, r64 \in U64Draws :
        GenerateOverflowing(now, r16, r64)

SpecOverflowing == Init /\ [][NextOverflowing]_vars

----------------------------------------------------------------------------
\* Ulid::from_datetime_with_source called on its own.

LastTwo(s) == IF Len(s) <= 2 THEN s ELSE SubSeq(s, Len(s) - 1, Len(s))

FromDatetime(datetime, r16, r64) ==
    /\ made' = LastTwo(Append(made,
                  [datetime |-> datetime, drawn |-> << r16, r64 >>,
                   ulid |-> from_datetime_with_source(datetime, r16, r64)]))
    /\ UNCHANGED << genVars, codecVars, unitVars, envVars >>

NextTime ==
    \E datetime \in Datetimes, r16 \in U16Draws, r64 \in U64Draws :
        FromDatetime(datetime, r16, r64)

SpecTime == Init /\ [][NextTime]_vars

----------------------------------------------------------------------------
\* The codec applied to inputs: a pair of values to encode, or a str to decode.

EncodeBases ==
    { Zero(U128Limbs), AllOnes(U128Limbs),
      << 16705, 16705, 16705, 16705, 16705, 16705, 16705, 16705 >>,
      << 19790, 14416, 20804, 19033, 17730, 13363, 23105, 14166 >>,
      << 3855, 3855, 3855, 3855, 3855, 3855, 3855, 3855 >> }

LimbInputs == { 1, 9, 10, 31, 32, 32767, 32768 }

ValueInputs ==
    EncodeBases \cup
    { [b EXCEPT ![k] = x] :
        b \in { Zero(U128Limbs), AllOnes(U128Limbs) }, k \in 1..U128Limbs, x \in LimbInputs }

DecodeBases ==
    { << 50, 49, 56, 53, 48, 77, 50, 71, 65, 49, 56, 53, 48, 77, 50, 71, 65, 49, 56, 53, 48, 77, 50, 71, 65, 49 >>,
      << 50, 68, 57, 82, 87, 53, 48, 77, 65, 52, 57, 57, 67, 77, 65, 71, 72, 77, 54, 68, 68, 52, 50, 68, 84, 80 >>,
      << 50, 100, 57, 114, 119, 53, 48, 109, 97, 52, 57, 57, 99, 109, 97, 103, 104, 109, 54, 100, 100, 52, 50, 100, 116, 112 >>,
      << 48, 49, 66, 88, 53, 90, 90, 75, 66, 75, 65, 90, 90, 90, 90, 90, 90, 90, 90, 90, 90, 90, 90, 90, 90, 90 >>,
      << 55, 90, 90, 90, 90, 90, 90, 90, 90, 90, 90, 90, 90, 90, 90, 90, 90, 90, 90, 90, 90, 90, 90, 90, 90, 90 >> }

\* Characters as their UTF-8 encodings: all of ASCII, and characters of
\* two, three and four bytes.
Chars ==
    { << b >> : b \in 0..127 } \cup
    { << 194, 128 >>, << 195, 169 >>, << 223, 191 >>,
      << 226, 130, 172 >>, << 240, 159, 152, 128 >> }

\* s with `del` bytes from position pos on replaced by ins.
Splice(s, pos, del, ins) ==
    SubSeq(s, 1, pos - 1) \o ins \o SubSeq(s, pos + del, Len(s))

DecodeInputs ==
    { << >> } \cup
    { Splice(s, pos, del, ins) :
        s \in DecodeBases, pos \in { 1, 8, 26 }, del \in 0..4, ins \in Chars \cup { << >> } }

InitCodec ==
    /\ previous = nil
    /\ log = << >>
    /\ made = << >>
    /\ \/ /\ enc_in \in { << a, b >> : a, b \in ValueInputs }
          /\ dec_in = << >>
       \/ /\ enc_in = << >>
          /\ dec_in \in { << s >> : s \in DecodeInputs }
    /\ enc_out = << >>
    /\ dec_out = << >>
    /\ op_in = [op |-> "none"] /\ op_out = << >>
    /\ clock = 1 /\ cli = NotRunning /\ held = NoneHeld

Encode ==
    /\ Len(enc_out) < Len(enc_in)
    /\ enc_out' = Append(enc_out, encode(enc_in[Len(enc_out) + 1]))
    /\ UNCHANGED << genVars, made, enc_in, dec_in, dec_out, unitVars, envVars >>

Decode ==
    /\ Len(dec_out) < Len(dec_in)
    /\ dec_out' = Append(dec_out, decode(dec_in[Len(dec_out) + 1]))
    /\ UNCHANGED << genVars, made, enc_in, enc_out, dec_in, unitVars, envVars >>

NextCodec == Encode \/ Decode

SpecCodec == InitCodec /\ [][NextCodec]_vars

----------------------------------------------------------------------------
\* The fields of a Ulid, read off the limbs: 48 bits of time, 80 of randomness.

TimeField(u) == SubSeq(u, 1, 3)
RandomField(u) == SubSeq(u, 4, 8)

\* b = a + 1 as unsigned integers of the same width, without wrapping.
IsSuccessor(a, b) ==
    \E k \in 1..Len(a) :
        /\ b[k] = a[k] + 1
        /\ \A j \in 1..Len(a) : j < k => b[j] = a[j]
        /\ \A j \in 1..Len(a) : j > k => a[j] = LimbMax /\ b[j] = 0

\* The millisecond count T of a call's datetime against the time field of
\* the generator's previous Ulid.
ClockNotAdvanced(c) ==
    LessEq(millis_since_epoch(c.datetime), Zero(5) \o TimeField(c.before))
ClockAdvanced(c) == ~ClockNotAdvanced(c)
RandomSaturated(u) == RandomField(u) = AllOnes(5)

Calls == 1..Len(log)

\* C1: every call that returns Ok returns a Ulid strictly greater than the
\* Ulid returned by every earlier successful call on the generator.
C1_StrictlyIncreasing ==
    \A i, j \in Calls :
        (i < j /\ log[i].result.ok /\ log[j].result.ok)
            => Less(log[i].result.val, log[j].result.val)

\* C2: a call whose T is <= timestamp_ms(previous), with the random field of
\* previous not saturated, returns previous + 1 and stores it; successive
\* such calls return contiguous values with the same timestamp.
C2_CollisionIncrements ==
    /\ \A i \in Calls :
          (ClockNotAdvanced(log[i]) /\ ~RandomSaturated(log[i].before))
              => /\ log[i].result.ok
                 /\ IsSuccessor(log[i].before, log[i].result.val)
                 /\ log[i].after = log[i].result.val
                 /\ TimeField(log[i].result.val) = TimeField(log[i].before)
                 /\ IsSuccessor(RandomField(log[i].before),
                                RandomField(log[i].result.val))
    /\ \A i \in Calls :
          (i > 1 /\ ClockNotAdvanced(log[i]) /\ ~RandomSaturated(log[i].before)
                 /\ log[i - 1].result.ok)
              => IsSuccessor(log[i - 1].result.val, log[i].result.val)
    /\ (log # << >>) => previous = log[Len(log)].after

C2_Witness ==
    \E i \in Calls :
        /\ i > 1
        /\ ClockNotAdvanced(log[i]) /\ ClockNotAdvanced(log[i - 1])
        /\ log[i].datetime = log[i - 1].datetime
        /\ log[i].result.ok /\ log[i - 1].result.ok
        /\ RandomField(log[i].result.val)[5] = 2

\* C3: with the random field of previous saturated and T <= timestamp_ms(previous)
\* the call returns Err(Overflow) and leaves previous unchanged.
C3_OverflowKeepsState ==
    \A i \in Calls :
        (ClockNotAdvanced(log[i]) /\ RandomSaturated(log[i].before))
            => /\ log[i].result = Err("Overflow")
               /\ log[i].after = log[i].before
               /\ (i = Len(log) => previous = log[i].before)

C3_Witness ==
    \E i \in Calls :
        /\ i > 1
        /\ log[i].result = Err("Overflow")
        /\ log[i - 1].result = Err("Overflow")
        /\ previous = log[i - 1].before

\* C4: a call whose T is strictly later than timestamp_ms(previous) returns
\* a Ulid strictly greater than previous whose timestamp_ms equals T.
C4_AdvanceUsesT ==
    \A i \in Calls :
        ClockAdvanced(log[i])
            => /\ log[i].result.ok
               /\ Less(log[i].before, log[i].result.val)
               /\ Zero(5) \o TimeField(log[i].result.val)
                      = millis_since_epoch(log[i].datetime)

----------------------------------------------------------------------------
\* The system clock, read by Generator::generate through time_utils::now.

\* The readings the clock takes, in the order it takes them: 1 ms, 2 ms,
\* 2^48 - 1 ms and 2^48 + 1 ms after the epoch.
ClockReadings ==
    << Instant(FALSE, Millis(0, 1), 0), Instant(FALSE, Millis(0, 2), 0),
       Instant(FALSE, bitmask(TIME_BITS), 0), Instant(FALSE, Millis(1, 1), 0) >>

now == ClockReadings[clock]

\* Time passes: the clock moves on to its next reading.
Tick ==
    /\ clock < Len(ClockReadings)
    /\ clock' = clock + 1
    /\ UNCHANGED << genVars, made, codecVars, unitVars, cli, held >>

----------------------------------------------------------------------------
\* The command-line program: generate(count, monotonic) with monotonic set.

\* let mut gen = Generator::new(); let mut i = 0;
InitCli ==
    /\ previous = nil
    /\ log = << >>
    /\ made = << >>
    /\ enc_in = << >> /\ enc_out = << >>
    /\ dec_in = << >> /\ dec_out = << >>
    /\ op_in = [op |-> "none"] /\ op_out = << >>
    /\ clock \in 1..Len(ClockReadings)
    /\ cli \in { [pc |-> "while", count |-> count, i |-> 0, stdout |-> << >>] :
                    count \in 0..MaxCount }
    /\ held = NoneHeld

\* One turn of the loop: match gen.generate() { Ok(ulid) => print it and
\* count it, Err(_) => report on standard error and go to sleep }.
CliGenerate(r16, r64) ==
    LET out == generate_from_datetime_with_source(previous, now, r16, r64)
    IN /\ cli.pc = "while"
       /\ cli.i < cli.count
       /\ previous' = out.previous
       /\ cli' = IF out.result.ok
                 THEN [cli EXCEPT !.stdout = Append(@, out.result.val), !.i = @ + 1]
                 ELSE [cli EXCEPT !.pc = "sleep"]
       /\ UNCHANGED << log, made, codecVars, unitVars, clock, held >>

\* thread::sleep(Duration::from_millis(1)) returns.
CliWake ==
    /\ cli.pc = "sleep"
    /\ cli' = [cli EXCEPT !.pc = "while"]
    /\ UNCHANGED << genVars, made, codecVars, unitVars, clock, held >>

\* The loop ends: i < count is false.
CliReturn ==
    /\ cli.pc = "while"
    /\ ~(cli.i < cli.count)
    /\ cli' = [cli EXCEPT !.pc = "returned"]
    /\ UNCHANGED << genVars, made, codecVars, unitVars, clock, held >>

NextCli ==
    \/ \E r16 \in U16Draws, r64 \in U64Draws : CliGenerate(r16, r64)
    \/ CliWake
    \/ CliReturn
    \/ Tick

SpecCli == InitCli /\ [][NextCli]_vars

----------------------------------------------------------------------------
\* One generator shared by several callers, every call made under a lock.

\* A caller reads the clock, to pass the reading to its next call.
ReadClock(caller) ==
    /\ held[caller] = 0
    /\ held' = [held EXCEPT ![caller] = clock]
    /\ UNCHANGED << genVars, made, codecVars, unitVars, clock, cli >>

\* A caller takes the lock, calls generate_from_datetime_with_source with
\* the reading it holds and releases the lock: one step, since no other
\* call runs meanwhile.
LockedGenerate(caller, r16, r64) ==
    LET out == generate_from_datetime_with_source(
                   previous, ClockReadings[held[caller]], r16, r64)
    IN /\ held[caller] # 0
       /\ Len(log) < MaxCalls
       /\ previous' = out.previous
       /\ log' = Append(log, [datetime |-> ClockReadings[held[caller]], before |-> previous,
                              result |-> out.result, drawn |-> out.drawn,
                              after |-> out.previous])
       /\ held' = [held EXCEPT ![caller] = 0]
       /\ UNCHANGED << made, codecVars, unitVars, clock, cli >>

NextShared ==
    \/ \E caller \in Callers : ReadClock(caller)
    \/ \E caller \in Callers, r16 \in U16Draws, r64 \in U64Draws :
          LockedGenerate(caller, r16, r64)
    \/ Tick

SpecShared == Init /\ [][NextShared]_vars

----------------------------------------------------------------------------
\* Ulid::datetime, in its three variants.

UNIX_EPOCH == [before_epoch |-> FALSE, ms |-> << 0, 0, 0, 0, 0, 0, 0, 0 >>, ns |-> 0]

\* Ulid::datetime: SystemTime::UNIX_EPOCH + Duration::from_millis(stamp), an
\* instant of whole milliseconds.
datetime(self) ==
    LET stamp == timestamp_ms(self)
    IN [before_epoch |-> FALSE, ms |-> Extend(stamp, U128Limbs), ns |-> 0]

\* OffsetDateTime::from_unix_timestamp_nanos for a count of nanoseconds that
\* fits in 64 bits, which is within the range of OffsetDateTime.
from_unix_timestamp_nanos(nanos) ==
    LET micros == DivSmall(nanos, 1000)
    IN [before_epoch |-> FALSE,
        ms |-> Extend(DivSmall(micros, 1000), U128Limbs),
        ns |-> ModSmall(micros, 1000) * 1000 + ModSmall(nanos, 1000)]

\* Ulid::datetime returning an OffsetDateTime: the outcomes a build can give.
\* (secs * 1_000_000_000) + (millis * 1_000_000) is u64 arithmetic: when it
\* overflows, a build with overflow checks panics and a build without them
\* goes on with the wrapped value.
datetime_OffsetDateTime(self) ==
    LET stamp == timestamp_ms(self)
        secs == DivSmall(stamp, 1000)
        millis == ModSmall(stamp, 1000)
        exact == Add(MulSmall(MulSmall(MulSmall(Extend(secs, U128Limbs), 1000), 1000), 1000),
                     MulSmall(MulSmall(Small(U128Limbs, millis), 1000), 1000))
        overflows == SubSeq(exact, 1, U128Limbs - U64Limbs) # Zero(U128Limbs - U64Limbs)
        wrapped == Truncate(exact, U64Limbs)
    IN IF overflows
       THEN { Err("panic"), Ok(from_unix_timestamp_nanos(wrapped)) }
       ELSE { Ok(from_unix_timestamp_nanos(wrapped)) }

\* Ulid::datetime returning a DateTime<Utc>:
\* Utc.timestamp(secs as i64, (millis * 1_000_000) as u32)
datetime_Utc(self) ==
    LET stamp == timestamp_ms(self)
        secs == DivSmall(stamp, 1000)
        millis == ModSmall(stamp, 1000)
        nsecs == millis * 1000000
    IN [before_epoch |-> FALSE,
        ms |-> Add(MulSmall(Extend(secs, U128Limbs), 1000), Small(U128Limbs, nsecs \div 1000000)),
        ns |-> nsecs % 1000000]

----------------------------------------------------------------------------
\* A function called once on its own: encode_to on a caller's buffer,
\* Ulid::increment or a variant of Ulid::datetime on a Ulid.

\* Buffers of len bytes holding fill, fill + 1, ...: no byte of them is a
\* symbol of the alphabet.
Buffer(len, fill) == Tup([i \in 1..len |-> fill + i])

Buffers ==
    { Buffer(len, fill) : len \in { 0, 1, ULID_LEN - 1, ULID_LEN, ULID_LEN + 1, ULID_LEN + 6 },
                          fill \in { 0, 128 } }

EncodeToCalls ==
    { [op |-> "encode_to", value |-> v, buffer |-> b] : v \in EncodeBases, b \in Buffers }

TimeFields == { << 0, 0, 0 >>, << 0, 0, 1 >>, << 1, 22136, LimbMax >>, << LimbMax, LimbMax, LimbMax >> }

RandomFields ==
    { << 0, 0, 0, 0, 0 >>, << 0, 0, 0, 0, LimbMax >>, << 0, 0, LimbMax, LimbMax, LimbMax >>,
      << 0, LimbMax, LimbMax, LimbMax, LimbMax >>, << LimbMax, 0, 0, 0, 0 >>,
      << LimbMax, LimbMax, LimbMax, LimbMax, LimbMax - 1 >>,
      << LimbMax, LimbMax, LimbMax, LimbMax, LimbMax >> }

IncrementCalls ==
    { [op |-> "increment", self |-> t \o r] : t \in TimeFields, r \in RandomFields }

\* Timestamps 0, 1, 999, 1000, 18446744073709, 18446744073710,
\* 18446744073999, 18446744074000 and 2^48 - 1.
Stamps ==
    { << 0, 0, 0 >>, << 0, 0, 1 >>, << 0, 0, 999 >>, << 0, 0, 1000 >>,
      << 4294, 63392, 46573 >>, << 4294, 63392, 46574 >>, << 4294, 63392, 46863 >>,
      << 4294, 63392, 46864 >>, << LimbMax, LimbMax, LimbMax >> }

DatetimeCalls ==
    { [op |-> op, self |-> t \o r] :
        op \in { "datetime", "datetime_OffsetDateTime", "datetime_Utc" },
        t \in Stamps,
        r \in { << 0, 0, 0, 0, 0 >>, << LimbMax, LimbMax, LimbMax, LimbMax, LimbMax >> } }

InitUnit ==
    /\ previous = nil
    /\ log = << >>
    /\ made = << >>
    /\ enc_in = << >> /\ enc_out = << >>
    /\ dec_in = << >> /\ dec_out = << >>
    /\ op_in \in EncodeToCalls \cup IncrementCalls \cup DatetimeCalls
    /\ op_out = << >>
    /\ clock = 1 /\ cli = NotRunning /\ held = NoneHeld

EncodeTo ==
    /\ op_in.op = "encode_to"
    /\ op_out = << >>
    /\ op_out' = << encode_to(op_in.value, op_in.buffer) >>
    /\ UNCHANGED << genVars, made, codecVars, op_in, envVars >>

Increment ==
    /\ op_in.op = "increment"
    /\ op_out = << >>
    /\ op_out' = << increment(op_in.self) >>
    /\ UNCHANGED << genVars, made, codecVars, op_in, envVars >>

Datetime ==
    /\ op_in.op = "datetime"
    /\ op_out = << >>
    /\ op_out' = << Ok(datetime(op_in.self)) >>
    /\ UNCHANGED << genVars, made, codecVars, op_in, envVars >>

DatetimeOffsetDateTime ==
    /\ op_in.op = "datetime_OffsetDateTime"
    /\ op_out = << >>
    /\ \E outcome \in datetime_OffsetDateTime(op_in.self) : op_out' = << outcome >>
    /\ UNCHANGED << genVars, made, codecVars, op_in, envVars >>

DatetimeUtc ==
    /\ op_in.op = "datetime_Utc"
    /\ op_out = << >>
    /\ op_out' = << Ok(datetime_Utc(op_in.self)) >>
    /\ UNCHANGED << genVars, made, codecVars, op_in, envVars >>

NextUnit == EncodeTo \/ Increment \/ Datetime \/ DatetimeOffsetDateTime \/ DatetimeUtc

SpecUnit == InitUnit /\ [][NextUnit]_vars

----------------------------------------------------------------------------
\* Strings, read as bytes and as characters.

AlphabetBytes == { ALPHABET[k] : k \in 1..Len(ALPHABET) }

\* A symbol of the alphabet, or the lowercase form of one of its letters.
IsAlphabetSymbol(b) ==
    \/ b \in AlphabetBytes
    \/ b \in 97..122 /\ (b - 32) \in AlphabetBytes

OnlyAlphabetSymbols(s) == \A k \in 1..Len(s) : IsAlphabetSymbol(s[k])

\* ASCII uppercase of a string.
Uppercase(s) == Tup([k \in 1..Len(s) |-> IF s[k] \in 97..122 THEN s[k] - 32 ELSE s[k]])

\* The number of characters of a UTF-8 string: the bytes that are not
\* continuation bytes.
CharCount(s) == Cardinality({ k \in 1..Len(s) : s[k] \notin 128..191 })

\* Byte-wise lexicographic order of two strings of the same length.
LexLess(s, t) ==
    \E k \in 1..Len(s) :
        /\ s[k] < t[k]
        /\ \A j \in 1..(k - 1) : s[j] = t[j]

Encoded == 1..Len(enc_out)
Decoded == 1..Len(dec_out)

\* C5: decode(encode(v)) returns Ok(v) for every 128-bit value v.
C5_DecodeEncode ==
    \A k \in Encoded : decode(enc_out[k]) = Ok(enc_in[k])

C5_Witness ==
    /\ Len(enc_out) = 2
    /\ enc_in[1] = AllOnes(U128Limbs)
    /\ enc_in[2] = [Zero(U128Limbs) EXCEPT ![5] = 32768]
    /\ decode(enc_out[2]).ok

\* C6 as claimed: every 26-character string of alphabet symbols (either
\* case, any symbol in any position) decodes, and encoding the result gives
\* the uppercase of the string.
C6_EncodeDecodeAnyFirst ==
    \A k \in Decoded :
        (Len(dec_in[k]) = ULID_LEN /\ OnlyAlphabetSymbols(dec_in[k]))
            => /\ dec_out[k].ok
               /\ encode(dec_out[k].val) = Uppercase(dec_in[k])

\* C6 amended: every such string decodes; encoding the result gives the
\* uppercase of the string when its first symbol is one of 0..7, and
\* otherwise differs from it in the first symbol.
C6_EncodeDecode ==
    \A k \in Decoded :
        (Len(dec_in[k]) = ULID_LEN /\ OnlyAlphabetSymbols(dec_in[k]))
            => /\ dec_out[k].ok
               /\ (dec_in[k][1] \in 48..55
                      <=> encode(dec_out[k].val) = Uppercase(dec_in[k]))
               /\ SubSeq(encode(dec_out[k].val), 2, ULID_LEN)
                      = SubSeq(Uppercase(dec_in[k]), 2, ULID_LEN)

C6_Witness ==
    /\ Len(dec_out) = 1
    /\ Len(dec_in[1]) = ULID_LEN
    /\ OnlyAlphabetSymbols(dec_in[1])
    /\ dec_in[1][1] \in 48..55
    /\ dec_in[1] # Uppercase(dec_in[1])
    /\ dec_out[1].ok

\* C7: a < b as unsigned integers exactly when encode(a) is byte-wise
\* lexicographically smaller than encode(b).
C7_OrderPreserved ==
    Len(enc_out) = 2
        => (Less(enc_in[1], enc_in[2]) <=> LexLess(enc_out[1], enc_out[2]))

C7_Witness ==
    /\ Len(enc_out) = 2
    /\ Less(enc_in[1], enc_in[2])
    /\ enc_out[1][ULID_LEN] \in 48..57
    /\ enc_out[2][ULID_LEN] \in 65..90
    /\ SubSeq(enc_out[1], 1, ULID_LEN - 1) = SubSeq(enc_out[2], 1, ULID_LEN - 1)

\* C8 as claimed: for any two timestamps t1 < t2 and any random payloads the
\* Ulid built from t1 is strictly less than the Ulid built from t2.
C8_OrderAnyTimestamps ==
    Len(made) = 2
        => (Less(millis_since_epoch(made[1].datetime), millis_since_epoch(made[2].datetime))
               => Less(made[1].ulid, made[2].ulid))

\* C8 amended: the same for timestamps t1 < t2 where t2 fits in 48 bits.
C8_OrderWithin48Bits ==
    Len(made) = 2
        => ((/\ Less(millis_since_epoch(made[1].datetime),
                     millis_since_epoch(made[2].datetime))
             /\ LessEq(millis_since_epoch(made[2].datetime), bitmask(TIME_BITS)))
               => Less(made[1].ulid, made[2].ulid))

C8_Witness ==
    /\ Len(made) = 2
    /\ Less(millis_since_epoch(made[1].datetime), millis_since_epoch(made[2].datetime))
    /\ millis_since_epoch(made[2].datetime) = bitmask(TIME_BITS)
    /\ Less(RandomField(made[2].ulid), RandomField(made[1].ulid))

\* C9 as claimed: decode returns Err(InvalidLength) for every input that is
\* not exactly 26 characters long, whatever its characters are.
C9_LengthInCharacters ==
    \A k \in Decoded :
        CharCount(dec_in[k]) # ULID_LEN => dec_out[k] = Err("InvalidLength")

\* C9 amended: decode returns Err(InvalidLength) for every input that is not
\* exactly 26 bytes long, whatever its bytes are.
C9_LengthInBytes ==
    \A k \in Decoded :
        Len(dec_in[k]) # ULID_LEN => dec_out[k] = Err("InvalidLength")

C9_Witness ==
    /\ Len(dec_out) = 1
    /\ Len(dec_in[1]) = ULID_LEN + 1
    /\ ~OnlyAlphabetSymbols(dec_in[1])
    /\ dec_out[1] = Err("InvalidLength")

\* C10: for a 26-byte input decode returns Err(InvalidChar) exactly when a
\* byte is outside the alphabet and its lowercase letters; each of the 256
\* byte values has an entry in the table, a symbol value or the marker.
C10_InvalidChar ==
    /\ \A k \in Decoded :
          Len(dec_in[k]) = ULID_LEN
              => /\ dec_out[k] = Err("InvalidChar") <=> ~OnlyAlphabetSymbols(dec_in[k])
                 /\ dec_out[k].ok <=> OnlyAlphabetSymbols(dec_in[k])
    /\ (Len(dec_out) = 1) =>
          /\ Len(LOOKUP) = 256
          /\ \A b \in 0..255 :
                /\ LOOKUP[b + 1] \in 0..31 \cup { NO_VALUE }
                /\ LOOKUP[b + 1] # NO_VALUE <=> IsAlphabetSymbol(b)

C10_Witness ==
    /\ Len(dec_out) = 1
    /\ Len(dec_in[1]) = ULID_LEN
    /\ \E k \in 1..ULID_LEN : dec_in[1][k] \in { 73, 76, 79, 85, 105, 108, 111, 117 }
    /\ dec_out[1] = Err("InvalidChar")

\* ASCII lowercase of a string.
Lowercase(s) == Tup([k \in 1..Len(s) |-> IF s[k] \in 65..90 THEN s[k] + 32 ELSE s[k]])

HasUppercaseLetter(s) == \E k \in 1..Len(s) : s[k] \in 65..90
HasLowercaseLetter(s) == \E k \in 1..Len(s) : s[k] \in 97..122

\* C11: decode is case-insensitive: a 26-character string of alphabet
\* symbols, in uppercase, lowercase or mixed case, decodes to the value its
\* lowercase form and its uppercase form decode to.
C11_CaseInsensitive ==
    \A k \in Decoded :
        (Len(dec_in[k]) = ULID_LEN /\ OnlyAlphabetSymbols(dec_in[k]))
            => /\ dec_out[k].ok
               /\ decode(Lowercase(dec_in[k])) = dec_out[k]
               /\ decode(Uppercase(dec_in[k])) = dec_out[k]

C11_Witness ==
    /\ Len(dec_out) = 1
    /\ Len(dec_in[1]) = ULID_LEN
    /\ OnlyAlphabetSymbols(dec_in[1])
    /\ HasUppercaseLetter(dec_in[1])
    /\ HasLowercaseLetter(dec_in[1])
    /\ dec_out[1].ok
    /\ dec_out[1].val # Zero(U128Limbs)

\* The digits and the uppercase letters other than I, L, O and U.
UppercaseSymbols == ((48..57) \cup (65..90)) \ { 73, 76, 79, 85 }

\* C12: encode never fails; for every 128-bit value it produces exactly 26
\* characters, each a digit or an uppercase letter of the alphabet, and the
\* first of them is one of 0..7.
C12_EncodeShape ==
    \A k \in Encoded :
        /\ encode_to(enc_in[k], Tup([i \in 1..ULID_LEN |-> 0])).result = Ok(ULID_LEN)
        /\ Len(enc_out[k]) = ULID_LEN
        /\ CharCount(enc_out[k]) = ULID_LEN
        /\ \A j \in 1..ULID_LEN : enc_out[k][j] \in UppercaseSymbols
        /\ enc_out[k][1] \in 48..55

C12_Witness ==
    /\ Len(enc_out) = 2
    /\ enc_in[1] = AllOnes(U128Limbs)
    /\ enc_out[1][1] = 55
    /\ enc_in[2] = Zero(U128Limbs)
    /\ enc_out[2][1] = 48

Returned(op) == op_in.op = op /\ op_out # << >>

\* C13: encode_to returns Err(BufferTooSmall) exactly when the buffer is
\* shorter than 26 bytes, and then leaves the buffer as it was; otherwise it
\* returns Ok(26), writes the 26 characters encode gives into
\* buffer[0..26] and leaves every byte from index 26 on as it was.
C13_EncodeTo ==
    Returned("encode_to") =>
        LET before == op_in.buffer
            result == op_out[1].result
            after == op_out[1].buffer
        IN /\ result = Err("BufferTooSmall") <=> Len(before) < 26
           /\ Len(before) < 26 => after = before
           /\ Len(before) >= 26 =>
                /\ result = Ok(26)
                /\ Len(after) = Len(before)
                /\ SubSeq(after, 1, 26) = encode(op_in.value)
                /\ \A j \in 27..Len(before) : after[j] = before[j]

C13_Witness ==
    /\ Returned("encode_to")
    /\ Len(op_in.buffer) = 32
    /\ op_in.value = AllOnes(U128Limbs)
    /\ op_out[1].result = Ok(26)
    /\ op_out[1].buffer[1] = 55
    /\ op_out[1].buffer[27] = 128 + 27

\* C14: Ulid::increment returns None exactly when the low 80 bits are all
\* ones, whatever the 48 time bits are; otherwise it returns the Ulid with
\* the same 48 time bits and the random field one higher.
C14_Increment ==
    Returned("increment") =>
        LET self == op_in.self
            next == op_out[1]
        IN /\ next = << >> <=> RandomField(self) = << LimbMax, LimbMax, LimbMax, LimbMax, LimbMax >>
           /\ next # << >> =>
                /\ TimeField(next[1]) = TimeField(self)
                /\ RandomField(next[1]) = AddOne(RandomField(self))
                /\ Less(self, next[1])

C14_Witness ==
    /\ Returned("increment")
    /\ op_in.self = << LimbMax, LimbMax, LimbMax, 0, LimbMax, LimbMax, LimbMax, LimbMax >>
    /\ op_out[1] = << << LimbMax, LimbMax, LimbMax, 1, 0, 0, 0, 0 >> >>

Made == 1..Len(made)

\* C15: building a Ulid from a timestamp always succeeds: the millisecond
\* count T is reduced modulo 2^48, the random draws fill the low 80 bits
\* only, and timestamp_ms of the result is T mod 2^48.
C15_TimestampTruncated ==
    \A k \in Made :
        LET T == millis_since_epoch(made[k].datetime)
            ulid == made[k].ulid
        IN /\ Len(ulid) = U128Limbs
           /\ timestamp_ms(ulid) = << 0 >> \o SubSeq(T, 6, 8)
           /\ TimeField(ulid) = SubSeq(T, 6, 8)
           /\ RandomField(ulid) = << made[k].drawn[1] >> \o made[k].drawn[2]

C15_Witness ==
    \E k \in Made :
        /\ made[k].datetime.ms = Millis(1, 1)
        /\ made[k].drawn = << LimbMax, AllOnes(U64Limbs) >>
        /\ timestamp_ms(made[k].ulid) = << 0, 0, 0, 1 >>

\* The call drew from the source and returned the Ulid that
\* from_datetime_with_source builds from its datetime and the draws.
BuiltFromDatetime(c) ==
    /\ Len(c.drawn) = 2
    /\ c.result.ok
    /\ TimeField(c.result.val) = SubSeq(millis_since_epoch(c.datetime), 6, 8)
    /\ RandomField(c.result.val) = << c.drawn[1] >> \o c.drawn[2]

\* The value 1: the increment of the nil Ulid.
NilPlusOne == << 0, 0, 0, 0, 0, 0, 0, 1 >>

\* C16 as claimed: the first call on a new generator draws from the source
\* and returns a Ulid built from its datetime, never the increment of nil,
\* whatever the datetime is.
C16_FirstCallAlwaysAdvance ==
    log # << >> =>
        /\ log[1].before = << 0, 0, 0, 0, 0, 0, 0, 0 >>
        /\ BuiltFromDatetime(log[1])
        /\ log[1].result.val # NilPlusOne

\* C16 amended: the first call on a new generator draws from the source and
\* returns a Ulid built from its datetime when the datetime is a millisecond
\* or more after the epoch; for a datetime before, at or less than a
\* millisecond after the epoch it draws nothing and returns the increment of
\* nil.
C16_FirstCallAdvanceAfterEpoch ==
    log # << >> =>
        /\ log[1].before = << 0, 0, 0, 0, 0, 0, 0, 0 >>
        /\ IF log[1].datetime.before_epoch \/ log[1].datetime.ms = << 0, 0, 0, 0, 0, 0, 0, 0 >>
           THEN log[1].drawn = << >> /\ log[1].result = Ok(NilPlusOne)
           ELSE BuiltFromDatetime(log[1]) /\ log[1].result.val # NilPlusOne

C16_Witness ==
    /\ Len(log) = 1
    /\ log[1].datetime = Instant(FALSE, Millis(0, 1), 0)
    /\ log[1].drawn = << 0, << LimbMax, LimbMax, LimbMax, LimbMax - 1 >> >>
    /\ log[1].result.ok
    /\ TimeField(log[1].result.val) = << 0, 0, 1 >>

\* C17: after a call has returned Overflow the generator stays usable: the
\* next call whose T is strictly later than timestamp_ms(previous) returns Ok
\* with a Ulid strictly greater than every Ulid returned before the overflow.
C17_UsableAfterOverflow ==
    \A j \in Calls :
        (j > 1 /\ log[j - 1].result = Err("Overflow") /\ ClockAdvanced(log[j]))
            => /\ log[j].result.ok
               /\ \A h \in 1..(j - 1) :
                     log[h].result.ok => Less(log[h].result.val, log[j].result.val)

C19_OverflowingIncreases ==
    \A i \in Calls :
        log[i].before # << LimbMax, LimbMax, LimbMax, LimbMax, LimbMax, LimbMax, LimbMax, LimbMax >>
            => /\ log[i].result.ok
               /\ log[i].after = log[i].result.val
               /\ Less(log[i].before, log[i].result.val)
               /\ (i > 1 /\ log[i - 1].result.ok)
                     => Less(log[i - 1].result.val, log[i].result.val)
               /\ (RandomSaturated(log[i].before)
                     /\ LessEq(Zero(5) \o SubSeq(millis_since_epoch(log[i].datetime), 6, 8),
                               Zero(5) \o TimeField(log[i].before)))
                     => /\ TimeField(log[i].result.val) = AddOne(TimeField(log[i].before))
                        /\ RandomField(log[i].result.val) = << 0, 0, 0, 0, 0 >>

C19_Witness ==
    \E i \in Calls :
        /\ i > 1
        /\ RandomSaturated(log[i].before)
        /\ log[i].datetime = Instant(TRUE, Millis(0, 1), 0)
        /\ log[i].result = Ok(<< 0, 0, 2, 0, 0, 0, 0, 0 >>)

\* a <= b for two instants at or after the epoch.
NotAfter(a, b) == Less(a.ms, b.ms) \/ (a.ms = b.ms /\ a.ns <= b.ns)

\* C20: for a datetime dt at or after the epoch whose millisecond count
\* fits in 48 bits, the Ulid built from dt has timestamp_ms equal to dt's
\* whole milliseconds, and its datetime() is dt rounded down to the
\* millisecond: datetime() <= dt <= datetime() + 1 ms.
C20_DatetimeRoundsDown ==
    \A k \in Made :
        LET dt == made[k].datetime
            ulid == made[k].ulid
        IN (~dt.before_epoch /\ LessEq(dt.ms, bitmask(TIME_BITS)))
              => /\ Extend(timestamp_ms(ulid), U128Limbs) = dt.ms
                 /\ datetime(ulid) = [before_epoch |-> FALSE, ms |-> dt.ms, ns |-> 0]
                 /\ NotAfter(datetime(ulid), dt)
                 /\ NotAfter(dt, [datetime(ulid) EXCEPT !.ms = AddOne(@)])

C20_Witness ==
    \E k \in Made :
        /\ made[k].datetime = [before_epoch |-> FALSE, ms |-> Millis(0, 2), ns |-> 500000]
        /\ datetime(made[k].ulid) = [before_epoch |-> FALSE, ms |-> Millis(0, 2), ns |-> 0]
        /\ made[k].drawn[1] = LimbMax

\* C21: a Ulid built from a datetime before the epoch has timestamp_ms 0 and
\* datetime() equal to UNIX_EPOCH, and a generator handed such a datetime
\* acts as for timestamp 0: whatever its previous Ulid is, it does not draw
\* and returns the increment of previous, or Overflow when that has none.
C21_BeforeEpochIsEpoch ==
    \A k \in Made :
        made[k].datetime.before_epoch
            => /\ timestamp_ms(made[k].ulid) = << 0, 0, 0, 0 >>
               /\ TimeField(made[k].ulid) = << 0, 0, 0 >>
               /\ datetime(made[k].ulid) = UNIX_EPOCH
               /\ \A prev \in { nil } \cup { made[j].ulid : j \in Made } :
                     LET out == generate_from_datetime_with_source(
                                    prev, made[k].datetime, made[k].drawn[1], made[k].drawn[2])
                     IN /\ out.drawn = << >>
                        /\ IF RandomSaturated(prev)
                           THEN out.result = Err("Overflow") /\ out.previous = prev
                           ELSE out.result = Ok(AddOne(prev)) /\ out.previous = AddOne(prev)

C21_Witness ==
    /\ Len(made) = 2
    /\ ~made[1].datetime.before_epoch
    /\ TimeField(made[1].ulid) = << LimbMax, LimbMax, LimbMax >>
    /\ RandomSaturated(made[1].ulid)
    /\ made[2].datetime.before_epoch
    /\ made[2].datetime.ms # << 0, 0, 0, 0, 0, 0, 0, 0 >>
    /\ datetime(made[2].ulid) = UNIX_EPOCH

C25_DrawsOnlyOnAdvance ==
    \A i \in Calls :
        IF ClockNotAdvanced(log[i])
        THEN log[i].drawn = << >>
        ELSE /\ Len(log[i].drawn) = 2
             /\ log[i].drawn[1] \in 0..LimbMax
             /\ Len(log[i].drawn[2]) = U64Limbs
             /\ log[i].result.ok
             /\ RandomField(log[i].result.val) = << log[i].drawn[1] >> \o log[i].drawn[2]

C25_Witness ==
    /\ Len(log) = 3
    /\ log[1].drawn = << LimbMax, << LimbMax, LimbMax, LimbMax, LimbMax - 1 >> >>
    /\ log[2].result.ok /\ log[2].drawn = << >>
    /\ log[3].result = Err("Overflow") /\ log[3].drawn = << >>

\* C26 as claimed: the time part of the Ulid generate_overflowing returns is
\* never more than one millisecond later than the clock reading taken inside
\* the call, for any sequence of calls and clock readings.
C26_WithinOneMsAlways ==
    \A i \in Calls :
        log[i].result.ok
            => IF log[i].datetime.before_epoch
               THEN /\ TimeField(log[i].result.val) = << 0, 0, 0 >>
                    /\ LessEq(log[i].datetime.ms, Small(U128Limbs, 1))
                    /\ log[i].datetime.ms = Small(U128Limbs, 1) => log[i].datetime.ns = 0
               ELSE LessEq(Zero(5) \o TimeField(log[i].result.val), AddOne(log[i].datetime.ms))

\* C26 amended: when the clock reading is at or after the epoch and not
\* earlier than the time part of the generator's previous Ulid, the time part
\* of the returned Ulid is not more than one millisecond later than the
\* reading; for a reading that fits in 48 bits it is the reading's
\* millisecond, or the next one when previous has that millisecond and a
\* saturated random field.
C26_WithinOneMsOfLaterClock ==
    \A i \in Calls :
        (/\ log[i].result.ok
         /\ ~log[i].datetime.before_epoch
         /\ LessEq(Zero(5) \o TimeField(log[i].before), log[i].datetime.ms))
            => LET T == log[i].datetime.ms
                   stamp == Zero(5) \o TimeField(log[i].result.val)
               IN /\ LessEq(stamp, AddOne(T))
                  /\ LessEq(T, bitmask(TIME_BITS)) =>
                        /\ stamp \in { T, AddOne(T) }
                        /\ stamp = AddOne(T) =>
                              /\ RandomSaturated(log[i].before)
                              /\ Zero(5) \o TimeField(log[i].before) = T

C26_Witness ==
    \E i \in Calls :
        /\ log[i].result.ok
        /\ ~log[i].datetime.before_epoch
        /\ log[i].datetime.ms = Zero(5) \o TimeField(log[i].before)
        /\ RandomSaturated(log[i].before)
        /\ TimeField(log[i].result.val) = AddOne(TimeField(log[i].before))
        /\ Zero(5) \o TimeField(log[i].result.val) = AddOne(log[i].datetime.ms)

\* The Ulid returned by the most recent successful call, nil if there is none.
LastReturned ==
    LET succeeded == { i \in Calls : log[i].result.ok }
    IN IF succeeded = { } THEN << 0, 0, 0, 0, 0, 0, 0, 0 >>
       ELSE log[CHOOSE i \in succeeded : \A j \in succeeded : j <= i].result.val

\* C28: after any sequence of calls the generator's previous is the Ulid
\* returned by the most recent successful call, nil if none has succeeded,
\* and the timestamp of previous never decreases from one state to the next.
C28_PreviousInvariant ==
    /\ previous = LastReturned
    /\ \A i \in Calls :
          /\ log[i].after = IF log[i].result.ok THEN log[i].result.val ELSE log[i].before
          /\ LessEq(TimeField(log[i].before), TimeField(log[i].after))

\* C27: Ulid::datetime is total: for every Ulid, whatever its 48-bit
\* timestamp, each variant returns the instant timestamp_ms() milliseconds
\* after UNIX_EPOCH, and the arithmetic in between neither overflows nor
\* wraps.
C27_DatetimeTotal ==
    (Returned("datetime") \/ Returned("datetime_OffsetDateTime") \/ Returned("datetime_Utc"))
        => op_out[1] = Ok([before_epoch |-> FALSE,
                           ms |-> Zero(5) \o TimeField(op_in.self),
                           ns |-> 0])

\* C23: the program's loop prints exactly count identifiers, in strictly
\* increasing order, and then ends; a call that reports an overflow prints
\* nothing and does not count.
C23_CliPrintsCountIncreasing ==
    cli.pc # "none" =>
        /\ Len(cli.stdout) = cli.i
        /\ cli.i <= cli.count
        /\ cli.pc = "returned" => Len(cli.stdout) = cli.count
        /\ \A j, k \in 1..Len(cli.stdout) :
              j < k => Less(cli.stdout[j], cli.stdout[k])

\* C24: the Ulids returned by the calls made under the lock on a shared
\* generator, each with the reading its caller held, are pairwise distinct
\* and strictly increasing in the order the calls took the lock.
C24_SharedIncreasing ==
    \A i, j \in Calls :
        (i < j /\ log[i].result.ok /\ log[j].result.ok)
            => /\ log[i].result.val # log[j].result.val
               /\ Less(log[i].result.val, log[j].result.val)

====
